---- MODULE Spec2Model ----
(***************************************************************************)
(* Real Estate Document Analyzer (src/app.py): the extraction adapter      *)
(* (clean_json_string, json.loads, extract_structured_data), the field     *)
(* value normalizer (normalize_value), the question prompts, the summary   *)
(* PDF assembler and the Streamlit script with its session state.          *)
(*                                                                         *)
(* A Python str is a sequence of characters.  A character is a TLA+        *)
(* string: a printable ASCII character stands for itself, the others are   *)
(* named: "LF", "CR", "TAB", "DQ" (double quote), "BSL" (backslash),       *)
(* "BTICK" (backtick), "EACUTE" (U+00E9, inside latin-1), and three        *)
(* characters outside latin-1: "ENDASH" (U+2013), "EMDASH" (U+2014) and    *)
(* "SMILE" (U+1F600).                                                      *)
(***************************************************************************)
EXTENDS Integers, Sequences, FiniteSets, TLC

\* ------------------------------------------------------------------------
\* Python str methods used by the source
\* ------------------------------------------------------------------------

\* The characters str.strip() removes, among those of the alphabet.
PyWhitespace == {" ", "LF", "CR", "TAB"}

\* Characters with no latin-1 encoding.
NonLatin1 == {"ENDASH", "EMDASH", "SMILE"}

\* The first position from i on whose character is not in cs.
RECURSIVE SkipForward(_, _, _)
SkipForward(s, cs, i) ==
    IF i <= Len(s) /\ s[i] \in cs THEN SkipForward(s, cs, i + 1) ELSE i

\* The last position up to j whose character is not in cs.
RECURSIVE SkipBackward(_, _, _)
SkipBackward(s, cs, j) ==
    IF j >= 1 /\ s[j] \in cs THEN SkipBackward(s, cs, j - 1) ELSE j

\* s.strip(chars): drop leading and trailing characters that are in cs.
str_strip_chars(s, cs) ==
    LET i == SkipForward(s, cs, 1)
        j == SkipBackward(s, cs, Len(s))
    IN  IF i > j THEN <<>> ELSE SubSeq(s, i, j)

\* s.strip()
str_strip(s) == str_strip_chars(s, PyWhitespace)

\* s.startswith(p)
str_startswith(s, p) == Len(s) >= Len(p) /\ SubSeq(s, 1, Len(p)) = p

\* Whether p occurs in s at position i.
OccursAt(s, p, i) ==
    i + Len(p) - 1 <= Len(s) /\ \A k \in 1..Len(p) : s[i + k - 1] = p[k]

\* s.find(old, i): the first position from i on where old occurs, 0 if none.
str_find(s, old, i) ==
    LET hits == {j \in i..(Len(s) - Len(old) + 1) : OccursAt(s, old, j)}
    IN  IF hits = {} THEN 0 ELSE CHOOSE j \in hits : \A h \in hits : j <= h

\* s.replace(old, "", 1): remove the first occurrence of old.
str_remove_first(s, old) ==
    LET i == str_find(s, old, 1)
    IN  IF i = 0 THEN s
        ELSE SubSeq(s, 1, i - 1) \o SubSeq(s, i + Len(old), Len(s))

\* s[:n]
Prefix(s, n) == SubSeq(s, 1, IF Len(s) < n THEN Len(s) ELSE n)

\* sep.join(parts)
RECURSIVE str_join(_, _)
str_join(sep, parts) ==
    IF parts = <<>> THEN <<>>
    ELSE IF Len(parts) = 1 THEN parts[1]
    ELSE parts[1] \o sep \o str_join(sep, Tail(parts))

\* ------------------------------------------------------------------------
\* Python values as json.loads produces them
\* ------------------------------------------------------------------------

PyNone == <<"none">>

PyStr(s) == <<"str", s>>

PyInt(n) == <<"int", n>>

PyBool(b) == <<"bool", b>>

PyList(elems) == <<"list", elems>>

\* A dict is its items in insertion order, each <<key, value>>, keys distinct.
PyDict(items) == <<"dict", items>>

TypeOf(v) == v[1]

IsDict(v) == TypeOf(v) = "dict"

IsList(v) == TypeOf(v) = "list"

Items(v) == v[2]

Keys(v) == {Items(v)[i][1] : i \in 1..Len(Items(v))}

HasKey(v, k) == IsDict(v) /\ k \in Keys(v)

\* d[k] = x: an existing key keeps its position, a new key is appended.
DictSet(items, k, x) ==
    IF \E i \in 1..Len(items) : items[i][1] = k
    THEN [i \in 1..Len(items) |-> IF items[i][1] = k THEN <<k, x>> ELSE items[i]]
    ELSE Append(items, <<k, x>>)

\* d.get(k): the value under k, None when k is absent.
DictGet(d, k) ==
    IF k \in Keys(d)
    THEN Items(d)[CHOOSE i \in 1..Len(Items(d)) : Items(d)[i][1] = k][2]
    ELSE PyNone

\* bool(v)
Truthy(v) ==
    CASE TypeOf(v) = "none" -> FALSE
      [] TypeOf(v) = "bool" -> v[2]
      [] TypeOf(v) = "int"  -> v[2] # 0
      [] OTHER              -> v[2] # <<>>

\* ------------------------------------------------------------------------
\* clean_json_string
\* ------------------------------------------------------------------------

\* A variant that strips the fence markers and keeps the leading tag.
clean_json_string_keeps_tag(s) ==
    IF s = <<>> THEN <<"{","}">>
    ELSE LET s1 == str_strip(s)
             s2 == IF str_startswith(s1, <<"BTICK","BTICK","BTICK">>)
                   THEN str_strip_chars(s1, {"BTICK"})
                   ELSE s1
         IN  str_strip(s2)

clean_json_string(s) ==
    IF s = <<>> THEN <<"{","}">>
    ELSE LET s1 == str_strip(s)
             s2 == IF str_startswith(s1, <<"BTICK","BTICK","BTICK">>)
                   THEN str_remove_first(
                            str_remove_first(str_strip_chars(s1, {"BTICK"}), <<"j","s","o","n","LF">>),
                            <<"j","s","o","n","CR","LF">>)
                   ELSE s1
         IN  str_strip(s2)

\* ------------------------------------------------------------------------
\* json.loads (strict): objects, arrays, strings, integers, true/false/null
\* ------------------------------------------------------------------------

JsonWs == {" ", "LF", "CR", "TAB"}

ControlChars == {"LF", "CR", "TAB"}

Digits == <<"0", "1", "2", "3", "4", "5", "6", "7", "8", "9">>

IsDigit(c) == \E d \in 1..10 : Digits[d] = c

DigitVal(c) == (CHOOSE d \in 1..10 : Digits[d] = c) - 1

\* The character a backslash escape stands for.
JsonEscapes == <<<<"DQ", "DQ">>, <<"BSL", "BSL">>, <<"/", "/">>,
                 <<"n", "LF">>, <<"r", "CR">>, <<"t", "TAB">>>>

IsEscape(c) == \E e \in 1..Len(JsonEscapes) : JsonEscapes[e][1] = c

Unescape(c) == JsonEscapes[CHOOSE e \in 1..Len(JsonEscapes) : JsonEscapes[e][1] = c][2]

\* A parse result is <<ok, value, next position>>.
ParseFail == <<FALSE, PyNone, 0>>

RECURSIVE SkipWs(_, _)
SkipWs(s, i) == IF i <= Len(s) /\ s[i] \in JsonWs THEN SkipWs(s, i + 1) ELSE i

\* The body of a string literal, from the character after the opening quote.
RECURSIVE ScanString(_, _, _)
ScanString(s, i, acc) ==
    IF i > Len(s) THEN ParseFail
    ELSE IF s[i] = "DQ" THEN <<TRUE, acc, i + 1>>
    ELSE IF s[i] \in ControlChars THEN ParseFail
    ELSE IF s[i] = "BSL"
         THEN IF i + 1 <= Len(s) /\ IsEscape(s[i + 1])
              THEN ScanString(s, i + 2, Append(acc, Unescape(s[i + 1])))
              ELSE ParseFail
    ELSE ScanString(s, i + 1, Append(acc, s[i]))

RECURSIVE ScanDigits(_, _, _)
ScanDigits(s, i, n) ==
    IF i <= Len(s) /\ IsDigit(s[i])
    THEN ScanDigits(s, i + 1, 10 * n + DigitVal(s[i]))
    ELSE <<TRUE, PyInt(n), i>>

\* An integer literal: 0, or a non-zero digit followed by digits.
ScanNumber(s, i) ==
    IF s[i] = "0" THEN <<TRUE, PyInt(0), i + 1>> ELSE ScanDigits(s, i, 0)

RECURSIVE ParseValue(_, _)
RECURSIVE ParseElems(_, _, _)
RECURSIVE ParseMembers(_, _, _)

\* The elements of an array, from the first character of an element.
ParseElems(s, i, acc) ==
    LET r == ParseValue(s, i)
        j == SkipWs(s, r[3])
    IN  IF ~r[1] \/ j > Len(s) THEN ParseFail
        ELSE IF s[j] = "]" THEN <<TRUE, PyList(Append(acc, r[2])), j + 1>>
        ELSE IF s[j] = "," THEN ParseElems(s, SkipWs(s, j + 1), Append(acc, r[2]))
        ELSE ParseFail

\* The members of an object, from the opening quote of a key.
ParseMembers(s, i, acc) ==
    IF i > Len(s) \/ s[i] # "DQ" THEN ParseFail
    ELSE LET k == ScanString(s, i + 1, <<>>)
             c == SkipWs(s, k[3])
         IN  IF ~k[1] \/ c > Len(s) \/ s[c] # ":" THEN ParseFail
             ELSE LET r == ParseValue(s, SkipWs(s, c + 1))
                      j == SkipWs(s, r[3])
                      items == DictSet(acc, k[2], r[2])
                  IN  IF ~r[1] \/ j > Len(s) THEN ParseFail
                      ELSE IF s[j] = "}" THEN <<TRUE, PyDict(items), j + 1>>
                      ELSE IF s[j] = ","
                           THEN ParseMembers(s, SkipWs(s, j + 1), items)
                      ELSE ParseFail

ParseValue(s, i) ==
    IF i > Len(s) THEN ParseFail
    ELSE IF s[i] = "DQ"
         THEN LET r == ScanString(s, i + 1, <<>>)
              IN  IF r[1] THEN <<TRUE, PyStr(r[2]), r[3]>> ELSE ParseFail
    ELSE IF s[i] = "{"
         THEN LET j == SkipWs(s, i + 1)
              IN  IF j <= Len(s) /\ s[j] = "}" THEN <<TRUE, PyDict(<<>>), j + 1>>
                  ELSE ParseMembers(s, j, <<>>)
    ELSE IF s[i] = "["
         THEN LET j == SkipWs(s, i + 1)
              IN  IF j <= Len(s) /\ s[j] = "]" THEN <<TRUE, PyList(<<>>), j + 1>>
                  ELSE ParseElems(s, j, <<>>)
    ELSE IF OccursAt(s, <<"n","u","l","l">>, i) THEN <<TRUE, PyNone, i + 4>>
    ELSE IF OccursAt(s, <<"t","r","u","e">>, i) THEN <<TRUE, PyBool(TRUE), i + 4>>
    ELSE IF OccursAt(s, <<"f","a","l","s","e">>, i) THEN <<TRUE, PyBool(FALSE), i + 5>>
    ELSE IF IsDigit(s[i]) THEN ScanNumber(s, i)
    ELSE ParseFail

\* json.loads(s): <<TRUE, value>>, or <<FALSE, None>> where it raises.
json_loads(s) ==
    LET r == ParseValue(s, SkipWs(s, 1))
    IN  IF r[1] /\ SkipWs(s, r[3]) = Len(s) + 1 THEN <<TRUE, r[2]>>
        ELSE <<FALSE, PyNone>>

\* ------------------------------------------------------------------------
\* str(v) and repr(v)
\* ------------------------------------------------------------------------

RECURSIVE IntStr(_)
IntStr(n) == IF n < 10 THEN <<Digits[n + 1]>> ELSE IntStr(n \div 10) \o <<Digits[(n % 10) + 1]>>

\* repr of a str: double quotes when it holds an apostrophe and no double
\* quote, single quotes otherwise; backslash, the quote and control
\* characters are escaped.
ReprChar(c, quote) ==
    CASE c = "BSL" -> <<"BSL","BSL">>
      [] c = quote -> <<"BSL", quote>>
      [] c = "LF"  -> <<"BSL","n">>
      [] c = "CR"  -> <<"BSL","r">>
      [] c = "TAB" -> <<"BSL","t">>
      [] OTHER     -> <<c>>

RECURSIVE ReprChars(_, _)
ReprChars(s, quote) ==
    IF s = <<>> THEN <<>> ELSE ReprChar(Head(s), quote) \o ReprChars(Tail(s), quote)

ReprStr(s) ==
    LET has(c) == \E i \in 1..Len(s) : s[i] = c
        quote == IF has("'") /\ ~has("DQ") THEN "DQ" ELSE "'"
    IN  <<quote>> \o ReprChars(s, quote) \o <<quote>>

RECURSIVE py_repr(_)
py_repr(v) ==
    CASE TypeOf(v) = "none" -> <<"N","o","n","e">>
      [] TypeOf(v) = "bool" -> IF v[2] THEN <<"T","r","u","e">> ELSE <<"F","a","l","s","e">>
      [] TypeOf(v) = "int"  -> IntStr(v[2])
      [] TypeOf(v) = "str"  -> ReprStr(v[2])
      [] TypeOf(v) = "list" ->
            <<"[">> \o str_join(<<","," ">>, [i \in 1..Len(v[2]) |-> py_repr(v[2][i])]) \o <<"]">>
      [] TypeOf(v) = "dict" ->
            <<"{">> \o str_join(<<","," ">>, [i \in 1..Len(v[2]) |->
                       ReprStr(v[2][i][1]) \o <<":"," ">> \o py_repr(v[2][i][2])]) \o <<"}">>

\* str(v): a str is itself, every other value is its repr.
py_str(v) == IF TypeOf(v) = "str" THEN v[2] ELSE py_repr(v)

\* ------------------------------------------------------------------------
\* normalize_value
\* ------------------------------------------------------------------------

\* A variant that turns the underscores of a mapping's keys into spaces.
normalize_value_recased(value) ==
    LET recase(k) == [i \in 1..Len(k) |-> IF k[i] = "_" THEN " " ELSE k[i]]
    IN  IF IsDict(value)
        THEN str_join(<<","," ">>, [i \in 1..Len(Items(value)) |->
                 recase(Items(value)[i][1]) \o <<":"," ">> \o py_str(Items(value)[i][2])])
        ELSE IF IsList(value)
        THEN str_join(<<","," ">>, [i \in 1..Len(Items(value)) |-> py_str(Items(value)[i])])
        ELSE IF TypeOf(value) = "none" \/ value = PyStr(<<>>) THEN <<"EMDASH">>
        ELSE py_str(value)

normalize_value(value) ==
    IF IsDict(value)
    THEN str_join(<<","," ">>, [i \in 1..Len(Items(value)) |->
             Items(value)[i][1] \o <<":"," ">> \o py_str(Items(value)[i][2])])
    ELSE IF IsList(value)
    THEN str_join(<<","," ">>, [i \in 1..Len(Items(value)) |-> py_str(Items(value)[i])])
    ELSE IF TypeOf(value) = "none" \/ value = PyStr(<<>>) THEN <<"EMDASH">>
    ELSE py_str(value)

\* ------------------------------------------------------------------------
\* json.dumps(v, indent=2)
\* ------------------------------------------------------------------------

\* ensure_ascii: the escape of a character inside a JSON string literal.
JsonEscapeChar(c) ==
    CASE c = "DQ"     -> <<"BSL","DQ">>
      [] c = "BSL"    -> <<"BSL","BSL">>
      [] c = "LF"     -> <<"BSL","n">>
      [] c = "CR"     -> <<"BSL","r">>
      [] c = "TAB"    -> <<"BSL","t">>
      [] c = "EACUTE" -> <<"BSL","u","0","0","e","9">>
      [] c = "ENDASH" -> <<"BSL","u","2","0","1","3">>
      [] c = "EMDASH" -> <<"BSL","u","2","0","1","4">>
      [] c = "SMILE"  -> <<"BSL","u","d","8","3","d","BSL","u","d","e","0","0">>
      [] OTHER        -> <<c>>

RECURSIVE JsonEscape(_)
JsonEscape(s) == IF s = <<>> THEN <<>> ELSE JsonEscapeChar(Head(s)) \o JsonEscape(Tail(s))

JsonQuote(s) == <<"DQ">> \o JsonEscape(s) \o <<"DQ">>

\* A line break followed by the indentation of a nesting level.
NewlineIndent(level) == <<"LF">> \o [i \in 1..(2 * level) |-> " "]

RECURSIVE json_dumps_at(_, _)
json_dumps_at(v, level) ==
    CASE TypeOf(v) = "none" -> <<"n","u","l","l">>
      [] TypeOf(v) = "bool" -> IF v[2] THEN <<"t","r","u","e">> ELSE <<"f","a","l","s","e">>
      [] TypeOf(v) = "int"  -> IntStr(v[2])
      [] TypeOf(v) = "str"  -> JsonQuote(v[2])
      [] TypeOf(v) = "list" ->
            IF v[2] = <<>> THEN <<"[","]">>
            ELSE <<"[">> \o NewlineIndent(level + 1)
                 \o str_join(<<",">> \o NewlineIndent(level + 1),
                        [i \in 1..Len(v[2]) |-> json_dumps_at(v[2][i], level + 1)])
                 \o NewlineIndent(level) \o <<"]">>
      [] TypeOf(v) = "dict" ->
            IF v[2] = <<>> THEN <<"{","}">>
            ELSE <<"{">> \o NewlineIndent(level + 1)
                 \o str_join(<<",">> \o NewlineIndent(level + 1),
                        [i \in 1..Len(v[2]) |->
                            JsonQuote(v[2][i][1]) \o <<":"," ">>
                                \o json_dumps_at(v[2][i][2], level + 1)])
                 \o NewlineIndent(level) \o <<"}">>

json_dumps(v) == json_dumps_at(v, 0)

\* ------------------------------------------------------------------------
\* extract_structured_data
\* ------------------------------------------------------------------------

\* The keys of the schema the system prompt declares.
SchemaKeys ==
    {<<"d","o","c","u","m","e","n","t","_","t","y","p","e">>, <<"p","r","o","p","e","r","t","y","_","a","d","d","r","e","s","s">>, <<"l","a","n","d","l","o","r","d">>, <<"t","e","n","a","n","t">>, <<"b","u","y","e","r">>, <<"s","e","l","l","e","r">>,
     <<"p","u","r","c","h","a","s","e","_","p","r","i","c","e">>, <<"e","a","r","n","e","s","t","_","m","o","n","e","y">>, <<"l","e","a","s","e","_","s","t","a","r","t">>, <<"l","e","a","s","e","_","e","n","d">>, <<"m","o","n","t","h","l","y","_","r","e","n","t">>,
     <<"s","e","c","u","r","i","t","y","_","d","e","p","o","s","i","t">>, <<"l","a","t","e","_","f","e","e">>, <<"u","t","i","l","i","t","i","e","s">>, <<"o","t","h","e","r","_","f","e","e","s">>, <<"p","e","t","_","p","o","l","i","c","y">>,
     <<"t","e","r","m","i","n","a","t","i","o","n","_","c","l","a","u","s","e">>, <<"n","o","t","e","s">>}

\* What a call of the backend does: it raises, or it returns a message.
BackendRaises == <<"raise">>

BackendReturns(content) == <<"content", content>>

\* What a function does: it raises, or it returns a value.
Raised == <<"raised">>

Returned(value) == <<"returned", value>>

HasRaised(outcome) == outcome[1] = "raised"

HasReturned(outcome) == outcome[1] = "returned"

\* The text json.loads is given: the cleaned message.
CleanedResponse(backend) == clean_json_string(backend[2])

\* A variant that swallows the backend's exception and returns an empty record.
extract_structured_data_swallowing(text, backend) ==
    IF backend = BackendRaises THEN Returned(PyDict(<<>>))
    ELSE LET raw == CleanedResponse(backend)
             parsed == json_loads(raw)
         IN  IF parsed[1] THEN Returned(parsed[2])
             ELSE Returned(PyDict(<<<<<<"n","o","t","e","s">>, PyStr(raw)>>>>))

\* The request carries text[:15000]; what comes back is the backend's choice.
extract_structured_data(text, backend) ==
    IF backend = BackendRaises THEN Raised
    ELSE LET raw == CleanedResponse(backend)
             parsed == json_loads(raw)
         IN  IF parsed[1] THEN Returned(parsed[2])
             ELSE Returned(PyDict(<<<<<<"n","o","t","e","s">>, PyStr(raw)>>>>))

\* ------------------------------------------------------------------------
\* answer_question_standard, answer_question_persona: the request each sends
\* ------------------------------------------------------------------------

QaExcerptLimit == 8000

StandardSystemPrompt ==
    <<"LF"," "," "," "," ","Y","o","u"," ","a","r","e"," ","a"," ","p",
      "r","e","c","i","s","e"," ","r","e","a","l"," ","e","s","t","a",
      "t","e"," ","d","o","c","u","m","e","n","t"," ","a","s","s","i",
      "s","t","a","n","t",".","LF"," "," "," "," ","A","n","s","w","e",
      "r"," ","q","u","e","s","t","i","o","n","s"," ","O","N","L","Y",
      " ","u","s","i","n","g"," ","t","h","e"," ","d","o","c","u","m",
      "e","n","t"," ","t","e","x","t"," ","a","n","d"," ","s","t","r",
      "u","c","t","u","r","e","d"," ","f","i","e","l","d","s",".","LF",
      " "," "," "," ","I","f"," ","y","o","u"," ","a","r","e"," ","n",
      "o","t"," ","s","u","r","e",","," ","s","a","y"," ","y","o","u",
      " ","a","r","e"," ","n","o","t"," ","s","u","r","e",".","LF"," ",
      " "," "," ">>

PersonaSystemPrompt ==
    <<"LF"," "," "," "," ","Y","o","u"," ","a","r","e"," ","a"," ","f",
      "r","i","e","n","d","l","y",","," ","p","r","a","c","t","i","c",
      "a","l"," ","N","e","w"," ","Y","o","r","k"," ","r","e","a","l",
      " ","e","s","t","a","t","e"," ","a","g","e","n","t",".","LF"," ",
      " "," "," ","Y","o","u"," ","e","x","p","l","a","i","n"," ","t",
      "h","i","n","g","s"," ","c","l","e","a","r","l","y"," ","t","o",
      " ","t","e","n","a","n","t","s",","," ","b","u","y","e","r","s",
      ","," ","a","n","d"," ","l","a","n","d","l","o","r","d","s",".",
      "LF"," "," "," "," ","U","s","e"," ","p","l","a","i","n",","," ",
      "i","n","f","o","r","m","a","l"," ","l","a","n","g","u","a","g",
      "e",","," ","b","u","t"," ","s","t","a","y"," ","a","c","c","u",
      "r","a","t","e"," ","t","o"," ","t","h","e"," ","d","o","c","u",
      "m","e","n","t",".","LF"," "," "," "," ","A","l","w","a","y","s",
      " ","r","e","f","e","r","e","n","c","e"," ","t","h","e"," ","k",
      "e","y"," ","n","u","m","b","e","r","s"," ","i","f"," ","r","e",
      "l","e","v","a","n","t"," ","(","r","e","n","t",","," ","d","e",
      "p","o","s","i","t",","," ","d","a","t","e","s",","," ","f","e",
      "e","s",")",".","LF"," "," "," "," ","S","t","a","r","t"," ","w",
      "i","t","h"," ","a"," ","o","n","e","-","s","e","n","t","e","n",
      "c","e"," ","a","n","s","w","e","r",","," ","t","h","e","n"," ",
      "a","d","d"," ","2","ENDASH","3"," ","b","u","l","l","e","t"," ","t",
      "i","p","s",".","LF"," "," "," "," ">>

ChatRequest(model, system_prompt, user_prompt, temperature) ==
    [model |-> model,
     messages |-> <<[role |-> "system", content |-> system_prompt],
                    [role |-> "user", content |-> user_prompt]>>,
     temperature |-> temperature]

StandardUserPrompt(question, text, structured) ==
    <<"LF"," "," "," "," ","Q","U","E","S","T","I","O","N",":"," ">> \o question
        \o <<"LF","LF"," "," "," "," ","S","T","R","U","C","T","U","R","E","D"," ","F","I","E","L","D","S",":","LF"," "," "," "," ">> \o json_dumps(structured)
        \o <<"LF","LF"," "," "," "," ","D","O","C","U","M","E","N","T"," ","E","X","C","E","R","P","T",":","LF"," "," "," "," ">> \o Prefix(text, QaExcerptLimit)
        \o <<"LF"," "," "," "," ">>

\* A variant that leaves the record out of the prompt.
PersonaUserPrompt_no_record(question, text, structured) ==
    <<"LF"," "," "," "," ","Q","U","E","S","T","I","O","N",":"," ">> \o question
        \o <<"LF","LF"," "," "," "," ","D","O","C","U","M","E","N","T"," ","E","X","C","E","R","P","T",":","LF"," "," "," "," ">> \o Prefix(text, QaExcerptLimit)
        \o <<"LF"," "," "," "," ">>

PersonaUserPrompt(question, text, structured) ==
    <<"LF"," "," "," "," ","Q","U","E","S","T","I","O","N",":"," ">> \o question
        \o <<"LF","LF"," "," "," "," ","S","T","R","U","C","T","U","R","E","D"," ","F","I","E","L","D","S",":","LF"," "," "," "," ">> \o json_dumps(structured)
        \o <<"LF","LF"," "," "," "," ","D","O","C","U","M","E","N","T"," ","E","X","C","E","R","P","T",":","LF"," "," "," "," ">> \o Prefix(text, QaExcerptLimit)
        \o <<"LF"," "," "," "," ">>

answer_question_standard(question, text, structured) ==
    ChatRequest("gpt-4o", StandardSystemPrompt,
                StandardUserPrompt(question, text, structured), "0.4")

answer_question_persona(question, text, structured) ==
    ChatRequest("gpt-4o", PersonaSystemPrompt,
                PersonaUserPrompt(question, text, structured), "0.6")

\* ------------------------------------------------------------------------
\* build_summary_pdf: the texts handed to the PDF writer, in order
\* ------------------------------------------------------------------------

PdfFields ==
    <<<<<<"D","o","c","u","m","e","n","t"," ","T","y","p","e">>, <<"d","o","c","u","m","e","n","t","_","t","y","p","e">>>>,
      <<<<"P","r","o","p","e","r","t","y"," ","A","d","d","r","e","s","s">>, <<"p","r","o","p","e","r","t","y","_","a","d","d","r","e","s","s">>>>,
      <<<<"L","a","n","d","l","o","r","d">>, <<"l","a","n","d","l","o","r","d">>>>,
      <<<<"T","e","n","a","n","t">>, <<"t","e","n","a","n","t">>>>,
      <<<<"B","u","y","e","r">>, <<"b","u","y","e","r">>>>,
      <<<<"S","e","l","l","e","r">>, <<"s","e","l","l","e","r">>>>,
      <<<<"P","u","r","c","h","a","s","e"," ","P","r","i","c","e">>, <<"p","u","r","c","h","a","s","e","_","p","r","i","c","e">>>>,
      <<<<"E","a","r","n","e","s","t"," ","M","o","n","e","y">>, <<"e","a","r","n","e","s","t","_","m","o","n","e","y">>>>,
      <<<<"L","e","a","s","e"," ","S","t","a","r","t">>, <<"l","e","a","s","e","_","s","t","a","r","t">>>>,
      <<<<"L","e","a","s","e"," ","E","n","d">>, <<"l","e","a","s","e","_","e","n","d">>>>,
      <<<<"M","o","n","t","h","l","y"," ","R","e","n","t">>, <<"m","o","n","t","h","l","y","_","r","e","n","t">>>>,
      <<<<"S","e","c","u","r","i","t","y"," ","D","e","p","o","s","i","t">>, <<"s","e","c","u","r","i","t","y","_","d","e","p","o","s","i","t">>>>,
      <<<<"L","a","t","e"," ","F","e","e">>, <<"l","a","t","e","_","f","e","e">>>>,
      <<<<"U","t","i","l","i","t","i","e","s">>, <<"u","t","i","l","i","t","i","e","s">>>>,
      <<<<"O","t","h","e","r"," ","F","e","e","s">>, <<"o","t","h","e","r","_","f","e","e","s">>>>,
      <<<<"P","e","t"," ","P","o","l","i","c","y">>, <<"p","e","t","_","p","o","l","i","c","y">>>>,
      <<<<"T","e","r","m","i","n","a","t","i","o","n"," ","C","l","a","u","s","e">>, <<"t","e","r","m","i","n","a","t","i","o","n","_","c","l","a","u","s","e">>>>>>

build_summary_pdf(structured, value_estimate) ==
    LET notes == normalize_value(DictGet(structured, <<"n","o","t","e","s">>))
    IN  <<<<"R","e","a","l"," ","E","s","t","a","t","e"," ","D","o","c","u","m","e","n","t"," ","S","u","m","m","a","r","y">>>>
        \o [i \in 1..Len(PdfFields) |->
               PdfFields[i][1] \o <<":"," ">>
                   \o normalize_value(DictGet(structured, PdfFields[i][2]))]
        \o (IF notes # <<>> /\ notes # <<"EMDASH">> THEN <<<<"N","o","t","e","s">>, notes>> ELSE <<>>)
        \o (IF value_estimate # <<>>
            THEN <<<<"A","I"," ","P","r","o","p","e","r","t","y"," ","V","a","l","u","e"," ","E","s","t","i","m","a","t","e">>, value_estimate>> ELSE <<>>)

\* ------------------------------------------------------------------------
\* State
\* ------------------------------------------------------------------------

VARIABLES
    \* st.session_state and the file uploader widget
    raw_text, file_bytes, structured, value_estimate, tables, uploaded,
    \* the text the record in session state was extracted from, and the
    \* arguments the estimate in session state was computed from
    structured_from, estimate_from,
    \* what the last run of the script did
    analysis, messages, view, qa_request, pdf_texts,
    \* one call of extract_structured_data, beside the call whose backend
    \* returns the same payload unwrapped
    ex_payload, ex_wrapper, ex_backend, ex_call, ex_bare_call,
    \* normalize_value applied to a value, and to its own result
    nv_value, nv_once, nv_twice,
    \* the two answer functions called with the same arguments
    qa_question, qa_text, qa_record, qa_standard, qa_persona

appVars == <<raw_text, file_bytes, structured, value_estimate, tables, uploaded,
             structured_from, estimate_from,
             analysis, messages, view, qa_request, pdf_texts>>

exVars == <<ex_payload, ex_wrapper, ex_backend, ex_call, ex_bare_call>>

nvVars == <<nv_value, nv_once, nv_twice>>

qaVars == <<qa_question, qa_text, qa_record, qa_standard, qa_persona>>

vars == <<appVars, exVars, nvVars, qaVars>>

\* Not called yet.
Pending == <<"pending">>

\* ------------------------------------------------------------------------
\* Backend responses
\* ------------------------------------------------------------------------

ObjectPayloads ==
    {<<"{","}">>,
     <<"{","DQ","l","a","n","d","l","o","r","d","DQ",":"," ","DQ","J","a","n","e"," ","D","o","e","DQ","}">>,
     <<"{","DQ","l","a","n","d","l","o","r","d","DQ",":","DQ","J","a","n",
       "e"," ","D","o","e","DQ",",","DQ","t","e","n","a","n","t","DQ",":",
       "DQ","J","o","h","n"," ","R","o","e","DQ",",","DQ","m","o","n","t",
       "h","l","y","_","r","e","n","t","DQ",":","DQ","$","2",",","0","0",
       "0","DQ","}">>,
     <<"{","DQ","d","o","c","u","m","e","n","t","_","t","y","p","e","DQ",
       ":"," ","DQ","R","e","s","i","d","e","n","t","i","a","l"," ","L",
       "e","a","s","e","DQ",","," ","DQ","p","r","o","p","e","r","t","y",
       "_","a","d","d","r","e","s","s","DQ",":"," ","DQ","1","2","3"," ",
       "M","a","i","n"," ","S","t","DQ",","," ","DQ","l","a","n","d","l",
       "o","r","d","DQ",":"," ","DQ","J","a","n","e"," ","D","o","e","DQ",
       ","," ","DQ","t","e","n","a","n","t","DQ",":"," ","DQ","J","o","h",
       "n"," ","R","o","e","DQ",","," ","DQ","b","u","y","e","r","DQ",":",
       " ","DQ","DQ",","," ","DQ","s","e","l","l","e","r","DQ",":"," ","DQ",
       "DQ",","," ","DQ","p","u","r","c","h","a","s","e","_","p","r","i",
       "c","e","DQ",":"," ","DQ","DQ",","," ","DQ","e","a","r","n","e","s",
       "t","_","m","o","n","e","y","DQ",":"," ","DQ","DQ",","," ","DQ","l",
       "e","a","s","e","_","s","t","a","r","t","DQ",":"," ","DQ","J","a",
       "n","u","a","r","y"," ","1",","," ","2","0","2","5","DQ",","," ",
       "DQ","l","e","a","s","e","_","e","n","d","DQ",":"," ","DQ","2","0",
       "2","5","-","1","2","-","3","1","DQ",","," ","DQ","m","o","n","t",
       "h","l","y","_","r","e","n","t","DQ",":"," ","DQ","$","2",",","0",
       "0","0","DQ",","," ","DQ","s","e","c","u","r","i","t","y","_","d",
       "e","p","o","s","i","t","DQ",":"," ","DQ","DQ",","," ","DQ","l","a",
       "t","e","_","f","e","e","DQ",":"," ","DQ","DQ",","," ","DQ","u","t",
       "i","l","i","t","i","e","s","DQ",":"," ","DQ","DQ",","," ","DQ","o",
       "t","h","e","r","_","f","e","e","s","DQ",":"," ","DQ","DQ",","," ",
       "DQ","p","e","t","_","p","o","l","i","c","y","DQ",":"," ","DQ","DQ",
       ","," ","DQ","t","e","r","m","i","n","a","t","i","o","n","_","c",
       "l","a","u","s","e","DQ",":"," ","DQ","DQ",","," ","DQ","n","o","t",
       "e","s","DQ",":"," ","DQ","DQ","}">>,
     <<"{","DQ","n","o","t","e","s","DQ",":"," ","DQ","s","e","e"," ","a",
       "d","d","e","n","d","u","m","DQ",","," ","DQ","z","o","n","i","n",
       "g","DQ",":"," ","DQ","R","1","DQ","}">>,
     <<"{","DQ","t","e","n","a","n","t","DQ",":"," ","DQ","J","o","h","n",
       " ","R","o","e","DQ",","," ","DQ","m","o","n","t","h","l","y","_",
       "r","e","n","t","DQ",":"," ","2","0","0","0",","," ","DQ","o","t",
       "h","e","r","_","f","e","e","s","DQ",":"," ","{","DQ","c","a","m",
       "_","c","h","a","r","g","e","s","DQ",":"," ","4","5","0","}",",",
       " ","DQ","u","t","i","l","i","t","i","e","s","DQ",":"," ","[","DQ",
       "g","a","s","DQ",","," ","DQ","w","a","t","e","r","DQ","]","}">>,
     <<"{","LF"," "," ","DQ","l","a","n","d","l","o","r","d","DQ",":"," ",
       "DQ","J","a","n","e"," ","D","o","e","DQ",",","LF"," "," ","DQ","n",
       "o","t","e","s","DQ",":"," ","n","u","l","l","LF","}">>,
     <<"{","DQ","n","o","t","e","s","DQ",":"," ","DQ","C","a","f","EACUTE"," ","EMDASH"," ","SMILE","DQ","}">>,
     <<"{","DQ","n","o","t","e","s","DQ",":"," ","DQ","BTICK","BTICK","BTICK","j","s","o","n","DQ","}">>}

OtherJsonPayloads == {<<"[","1",","," ","2","]">>, <<"[","]">>, <<"DQ","J","a","n","e"," ","D","o","e","DQ">>, <<"4","2">>, <<"n","u","l","l">>}

ProsePayloads ==
    {<<"T","h","e"," ","l","e","a","s","e"," ","n","a","m","e","s"," ",
       "J","a","n","e"," ","D","o","e"," ","a","s"," ","l","a","n","d",
       "l","o","r","d",".">>,
     <<"H","e","r","e"," ","i","s"," ","t","h","e"," ","J","S","O","N",
       ":"," ","{","DQ","l","a","n","d","l","o","r","d","DQ",":"," ","DQ",
       "J","a","n","e"," ","D","o","e","DQ","}">>,
     <<"{","DQ","l","a","n","d","l","o","r","d","DQ",":"," ","DQ","J","a","n","e"," ","D","o","e","DQ">>,
     <<"j","s","o","n","LF","w","a","s"," ","r","e","q","u","e","s","t","e","d">>}

Payloads == ObjectPayloads \cup OtherJsonPayloads \cup ProsePayloads \cup {<<>>}

Wrappers == {"bare", "fenced_json", "fenced", "fenced_json_crlf", "padded"}

\* The message the backend returns for a payload.
Wrap(w, p) ==
    CASE w = "bare"             -> p
      [] w = "fenced_json"      -> <<"BTICK","BTICK","BTICK","j","s","o","n","LF">> \o p \o <<"LF","BTICK","BTICK","BTICK">>
      [] w = "fenced"           -> <<"BTICK","BTICK","BTICK","LF">> \o p \o <<"LF","BTICK","BTICK","BTICK">>
      [] w = "fenced_json_crlf" -> <<"BTICK","BTICK","BTICK","j","s","o","n","CR","LF">> \o p \o <<"CR","LF","BTICK","BTICK","BTICK">>
      [] w = "padded"           -> <<"LF"," "," ">> \o p \o <<" ","LF">>

\* ------------------------------------------------------------------------
\* extract_structured_data, called once per backend behaviour
\* ------------------------------------------------------------------------

NotCalled == [candidate |-> Pending, outcome |-> Pending]

ExtractCall(text, backend) ==
    [candidate |-> IF backend = BackendRaises THEN Pending
                   ELSE <<"candidate", CleanedResponse(backend)>>,
     outcome   |-> extract_structured_data(text, backend)]

ExIdle ==
    /\ ex_payload = <<>>
    /\ ex_wrapper = "bare"
    /\ ex_backend = BackendRaises
    /\ ex_call = NotCalled
    /\ ex_bare_call = NotCalled

ExInit ==
    /\ ex_call = NotCalled
    /\ ex_bare_call = NotCalled
    /\ \/ /\ ex_backend = BackendRaises
          /\ ex_payload = <<>>
          /\ ex_wrapper = "bare"
       \/ /\ ex_payload \in Payloads
          /\ ex_wrapper \in Wrappers
          /\ ex_backend = BackendReturns(Wrap(ex_wrapper, ex_payload))

\* The document text of the request.
ExText == <<"L","a","n","d","l","o","r","d",":"," ","J","a","n","e"," ","D",
            "o","e","LF","T","e","n","a","n","t",":"," ","J","o","h","n"," ",
            "R","o","e","LF","M","o","n","t","h","l","y"," ","R","e","n","t",
            ":"," ","$","2",",","0","0","0">>

Extract ==
    /\ ex_call = NotCalled
    /\ ex_call' = ExtractCall(ExText, ex_backend)
    /\ UNCHANGED <<ex_payload, ex_wrapper, ex_backend, ex_bare_call>>
    /\ UNCHANGED <<appVars, nvVars, qaVars>>

ExtractBare ==
    /\ ex_bare_call = NotCalled
    /\ ex_backend # BackendRaises
    /\ ex_bare_call' = ExtractCall(ExText, BackendReturns(ex_payload))
    /\ UNCHANGED <<ex_payload, ex_wrapper, ex_backend, ex_call>>
    /\ UNCHANGED <<appVars, nvVars, qaVars>>

ExNext == Extract \/ ExtractBare

\* ------------------------------------------------------------------------
\* normalize_value, applied to a value and then to its own result
\* ------------------------------------------------------------------------

\* The most elements of a list, and items of a dict, among the values.
MaxItems == 2

BoundedSeq(S, n) == UNION {[1..k -> S] : k \in 0..n}

FieldElements ==
    {PyNone, PyStr(<<>>), PyStr(<<"EMDASH">>), PyStr(<<"J","a","n","e"," ","D","o","e">>), PyInt(0), PyInt(450),
     PyBool(TRUE), PyList(<<>>), PyList(<<PyStr(<<"g","a","s">>)>>),
     PyDict(<<<<<<"p","e","r","_","m","o","n","t","h">>, PyInt(25)>>>>)}

FieldKeys == {<<"c","a","m","_","c","h","a","r","g","e","s">>, <<"L","a","t","e"," ","F","e","e">>, <<>>, <<"x">>}

FieldValues ==
    FieldElements
    \cup {PyList(s) : s \in BoundedSeq(FieldElements, MaxItems)}
    \cup {PyDict(s) : s \in {t \in BoundedSeq(FieldKeys \X FieldElements, MaxItems) :
                                \A i, j \in 1..Len(t) : t[i][1] = t[j][1] => i = j}}

NvIdle ==
    /\ nv_value = PyNone
    /\ nv_once = Pending
    /\ nv_twice = Pending

NvInit ==
    /\ nv_value \in FieldValues
    /\ nv_once = Pending
    /\ nv_twice = Pending

Rendered(s) == <<"rendered", s>>

Render ==
    /\ nv_once = Pending
    /\ nv_once' = Rendered(normalize_value(nv_value))
    /\ UNCHANGED <<nv_value, nv_twice>>
    /\ UNCHANGED <<appVars, exVars, qaVars>>

RenderAgain ==
    /\ nv_once # Pending
    /\ nv_twice = Pending
    /\ nv_twice' = Rendered(normalize_value(PyStr(nv_once[2])))
    /\ UNCHANGED <<nv_value, nv_once>>
    /\ UNCHANGED <<appVars, exVars, qaVars>>

NvNext == Render \/ RenderAgain

\* ------------------------------------------------------------------------
\* answer_question_standard and answer_question_persona, same arguments
\* ------------------------------------------------------------------------

\* A document longer than the excerpt the prompts carry.
LongText == [i \in 1..(QaExcerptLimit + 2) |-> IF i <= QaExcerptLimit THEN "a" ELSE "z"]

QaQuestions == {<<"W","h","a","t"," ","i","s"," ","t","h","e"," ","m","o","n","t","h","l","y"," ","r","e","n","t","?">>, <<"W","h","o"," ","p","a","y","s"," ","EMDASH"," ","m","e","?">>, <<>>}

QaTexts == {<<>>, ExText, LongText}

QaRecords ==
    {PyDict(<<>>),
     PyDict(<<<<<<"l","a","n","d","l","o","r","d">>, PyStr(<<"J","a","n","e"," ","D","o","e">>)>>, <<<<"m","o","n","t","h","l","y","_","r","e","n","t">>, PyInt(2000)>>>>),
     PyDict(<<<<<<"n","o","t","e","s">>, PyStr(<<"C","a","f","EACUTE"," ","EMDASH"," ","SMILE">>)>>,
              <<<<"o","t","h","e","r","_","f","e","e","s">>, PyDict(<<<<<<"c","a","m","_","c","h","a","r","g","e","s">>, PyInt(450)>>>>)>>,
              <<<<"u","t","i","l","i","t","i","e","s">>, PyList(<<PyStr(<<"g","a","s">>), PyNone>>)>>>>),
     PyDict(<<<<<<"n","o","t","e","s">>, PyStr(<<"DQ","q","u","o","t","e","d","DQ","LF","p","r","o","s","e">>)>>>>)}

Sent(request) == <<"sent", request>>

QaIdle ==
    /\ qa_question = <<>>
    /\ qa_text = <<>>
    /\ qa_record = PyDict(<<>>)
    /\ qa_standard = Pending
    /\ qa_persona = Pending

QaInit ==
    /\ qa_question \in QaQuestions
    /\ qa_text \in QaTexts
    /\ qa_record \in QaRecords
    /\ qa_standard = Pending
    /\ qa_persona = Pending

CallStandard ==
    /\ qa_standard = Pending
    /\ qa_standard' = Sent(answer_question_standard(qa_question, qa_text, qa_record))
    /\ UNCHANGED <<qa_question, qa_text, qa_record, qa_persona>>
    /\ UNCHANGED <<appVars, exVars, nvVars>>

CallPersona ==
    /\ qa_persona = Pending
    /\ qa_persona' = Sent(answer_question_persona(qa_question, qa_text, qa_record))
    /\ UNCHANGED <<qa_question, qa_text, qa_record, qa_standard>>
    /\ UNCHANGED <<appVars, exVars, nvVars>>

QaNext == CallStandard \/ CallPersona

\* ------------------------------------------------------------------------
\* The Streamlit script: one run per widget event
\* ------------------------------------------------------------------------

\* The number of readable PDF documents a user may upload.
NumDocs == 2

NoFile == <<"none">>

PdfFile(d) == <<"pdf", d>>

\* Bytes pdfplumber cannot open.
CorruptFile == <<"corrupt">>

Files == {PdfFile(d) : d \in 1..NumDocs} \cup {CorruptFile}

extract_text_from_pdf(file) ==
    IF file \in {NoFile, CorruptFile} THEN Raised
    ELSE Returned(<<"L","e","a","s","e"," ","o","f"," ","u","n","i","t"," ">> \o IntStr(file[2]) \o <<"LF","LF","L","a","n","d","l","o","r","d",":"," ","J","a","n","e"," ","D","o","e">>)

\* The tables found; pdfplumber's exception is caught and reported.
extract_tables_from_pdf(file) ==
    IF file = CorruptFile THEN <<>> ELSE <<<<"table", file[2]>>>>

estimate_property_value(record, text, backend) ==
    IF backend = BackendRaises THEN Raised ELSE Returned(str_strip(backend[2]))

AppExtractBackends ==
    {BackendRaises,
     BackendReturns(<<"{","DQ","l","a","n","d","l","o","r","d","DQ",":"," ","DQ","J","a",
                      "n","e"," ","D","o","e","DQ",","," ","DQ","m","o","n","t","h","l",
                      "y","_","r","e","n","t","DQ",":"," ","DQ","$","2",",","0","0","0",
                      "DQ","}">>),
     BackendReturns(Wrap("fenced_json", <<"{","DQ","n","o","t","e","s","DQ",":"," ","DQ","C","a","f","EACUTE"," ",
                                          "EMDASH"," ","SMILE","DQ",","," ","DQ","z","o","n","i","n","g","DQ",":"," ",
                                          "DQ","R","1","DQ","}">>)),
     BackendReturns(<<"{","}">>),
     BackendReturns(<<"[","1",","," ","2","]">>),
     BackendReturns(<<"T","h","e"," ","l","e","a","s","e"," ","n","a","m","e","s"," ",
                      "J","a","n","e"," ","D","o","e"," ","a","s"," ","l","a","n","d",
                      "l","o","r","d",".">>)}

AppEstimateBackends ==
    {BackendRaises, BackendReturns(<<" ","R","o","u","g","h","l","y"," ","$","4","0","0","k","ENDASH","$",
                                     "4","5","0","k","."," ","N","o","t"," ","a","n"," ","a","p","p",
                                     "r","a","i","s","a","l",".","LF">>)}

AppAnswerBackends == {BackendRaises, BackendReturns(<<"T","h","e"," ","r","e","n","t"," ","i","s"," ","$","2",",","0","0","0",".">>)}

NoAsk == <<"none">>

Ask(question, mode) == <<"ask", question, mode>>

Modes == {"Standard Q&A", "Real Estate Agent Persona"}

AppQuestions == {<<"W","h","a","t"," ","i","s"," ","t","h","e"," ","m","o","n","t","h","l","y"," ","r","e","n","t","?">>, <<" "," ">>}

NoAnalysis == [backend |-> Pending, outcome |-> Pending]

NoSource == <<"none">>

\* "Handle upload": the uploader's file is read into session state; the
\* script stops where pdfplumber raises.
UploadStep(up) ==
    LET read == extract_text_from_pdf(up)
    IN  IF up = NoFile
        THEN [stopped |-> FALSE, file_bytes |-> file_bytes, raw_text |-> raw_text]
        ELSE IF HasRaised(read)
        THEN [stopped |-> TRUE, file_bytes |-> up, raw_text |-> raw_text]
        ELSE [stopped |-> FALSE, file_bytes |-> up, raw_text |-> read[2]]

\* "Run analysis": ex and est are what extract_structured_data and
\* estimate_property_value did, ex_b what the extraction backend did.
AnalysisStep(u, analyze_clicked, ex_b, ex, est) ==
    LET clicked   == analyze_clicked /\ ~u.stopped
        analyzing == clicked /\ u.file_bytes # NoFile
        extracted == analyzing /\ HasReturned(ex)
        local     == IF HasReturned(ex) THEN ex[2] ELSE PyDict(<<>>)
    IN  [structured      |-> IF extracted THEN ex[2] ELSE structured,
         value_estimate  |-> IF ~analyzing THEN value_estimate
                             ELSE IF HasReturned(est) THEN est[2] ELSE <<>>,
         tables          |-> IF analyzing THEN extract_tables_from_pdf(u.file_bytes)
                             ELSE tables,
         structured_from |-> IF extracted THEN <<"text", u.raw_text>>
                             ELSE structured_from,
         estimate_from   |-> IF ~analyzing THEN estimate_from
                             ELSE IF HasReturned(est) THEN <<"args", local, u.raw_text>>
                             ELSE NoSource,
         analysis        |-> IF analyzing THEN [backend |-> ex_b, outcome |-> ex]
                             ELSE NoAnalysis,
         messages        |->
               (IF clicked /\ ~analyzing THEN {"Please upload a PDF first."} ELSE {})
            \cup (IF analyzing /\ HasRaised(ex) THEN {"Extraction failed"} ELSE {})
            \cup (IF analyzing /\ HasRaised(est) THEN {"Value estimate failed"} ELSE {})
            \cup (IF analyzing /\ u.file_bytes = CorruptFile
                  THEN {"Could not parse tables"} ELSE {})
            \cup (IF analyzing THEN {"Analysis complete"} ELSE {})]

\* The results section, shown when the record in session state is truthy:
\* the fields, the question form and the summary PDF.  structured.get
\* raises on a record that is no dict.
ResultsStep(u, a, ask, qa_b) ==
    LET shown     == ~u.stopped /\ Truthy(a.structured)
        results   == shown /\ IsDict(a.structured)
        asking    == results /\ ask # NoAsk
        answering == asking /\ str_strip(ask[2]) # <<>>
    IN  [view       |-> IF u.stopped \/ (shown /\ ~results) THEN "exception"
                        ELSE IF results THEN "results" ELSE "intro",
         qa_request |-> IF ~answering THEN Pending
                        ELSE IF ask[3] = "Standard Q&A"
                        THEN Sent(answer_question_standard(ask[2], u.raw_text, a.structured))
                        ELSE Sent(answer_question_persona(ask[2], u.raw_text, a.structured)),
         pdf_texts  |-> IF results THEN build_summary_pdf(a.structured, a.value_estimate)
                        ELSE <<>>,
         messages   |->
               (IF asking /\ ~answering THEN {"Please type a question first."} ELSE {})
            \cup (IF answering /\ qa_b = BackendRaises THEN {"Q&A failed"} ELSE {})]

\* One run of the script, top to bottom.  up is the uploader's file, ask the
\* click on "Answer question" with the question and mode the widgets hold;
\* ex_b, est_b and qa_b are what the backend does when it is called.
Rerun(up, analyze_clicked, ask, ex_b, est_b, qa_b) ==
    \E u \in {UploadStep(up)} :
    \E ex \in {extract_structured_data(u.raw_text, ex_b)} :
    \E est \in {estimate_property_value(
                   IF HasReturned(ex) THEN ex[2] ELSE PyDict(<<>>), u.raw_text, est_b)} :
    \E a \in {AnalysisStep(u, analyze_clicked, ex_b, ex, est)} :
    \E r \in {ResultsStep(u, a, ask, qa_b)} :
        /\ uploaded' = up
        /\ raw_text' = u.raw_text
        /\ file_bytes' = u.file_bytes
        /\ structured' = a.structured
        /\ value_estimate' = a.value_estimate
        /\ tables' = a.tables
        /\ structured_from' = a.structured_from
        /\ estimate_from' = a.estimate_from
        /\ analysis' = a.analysis
        /\ messages' = (IF up = NoFile THEN {"Upload a real estate PDF to get started."}
                        ELSE {}) \cup a.messages \cup r.messages
        /\ view' = r.view
        /\ qa_request' = r.qa_request
        /\ pdf_texts' = r.pdf_texts
        /\ UNCHANGED <<exVars, nvVars, qaVars>>

AppIdle ==
    /\ raw_text = <<>>
    /\ file_bytes = NoFile
    /\ structured = PyDict(<<>>)
    /\ value_estimate = <<>>
    /\ tables = <<>>
    /\ uploaded = NoFile
    /\ structured_from = NoSource
    /\ estimate_from = NoSource
    /\ analysis = NoAnalysis
    /\ messages = {"Upload a real estate PDF to get started."}
    /\ view = "intro"
    /\ qa_request = Pending
    /\ pdf_texts = <<>>

\* The first run of a new session: nothing uploaded, nothing clicked.
AppInit == AppIdle

\* The user puts a file into the uploader.
UploadFile ==
    \E f \in Files :
        /\ f # uploaded
        /\ Rerun(f, FALSE, NoAsk, BackendRaises, BackendRaises, BackendRaises)

\* The user removes the file from the uploader.
RemoveFile ==
    /\ uploaded # NoFile
    /\ Rerun(NoFile, FALSE, NoAsk, BackendRaises, BackendRaises, BackendRaises)

\* The user clicks "Analyze document with AI".
ClickAnalyze ==
    \E ex_b \in AppExtractBackends, est_b \in AppEstimateBackends :
        Rerun(uploaded, TRUE, NoAsk, ex_b, est_b, BackendRaises)

\* The user clicks "Answer question", which the results section shows.
ClickAsk ==
    /\ view = "results"
    /\ \E q \in AppQuestions, mode \in Modes, qa_b \in AppAnswerBackends :
           Rerun(uploaded, FALSE, Ask(q, mode), BackendRaises, BackendRaises, qa_b)

\* Any other widget event (typing a question, choosing a mode) reruns the script.
OtherEvent ==
    Rerun(uploaded, FALSE, NoAsk, BackendRaises, BackendRaises, BackendRaises)

AppNext == UploadFile \/ RemoveFile \/ ClickAnalyze \/ ClickAsk \/ OtherEvent

\* ------------------------------------------------------------------------
\* Specifications
\* ------------------------------------------------------------------------

\* The application: a session and the script runs the user's events cause.
Init == AppInit /\ ExIdle /\ NvIdle /\ QaIdle

Next == AppNext

Spec == Init /\ [][Next]_vars

\* extract_structured_data over the backend's behaviours.
InitExtract == ExInit /\ AppIdle /\ NvIdle /\ QaIdle

SpecExtract == InitExtract /\ [][ExNext]_vars

\* normalize_value over the field values.
InitRender == NvInit /\ AppIdle /\ ExIdle /\ QaIdle

SpecRender == InitRender /\ [][NvNext]_vars

\* The two answer functions over questions, records and texts.
InitQA == QaInit /\ AppIdle /\ ExIdle /\ NvIdle

SpecQA == InitQA /\ [][QaNext]_vars

\* ------------------------------------------------------------------------
\* Properties
\* ------------------------------------------------------------------------

FullyKeyed(v) == IsDict(v) /\ SchemaKeys \subseteq Keys(v)

\* An empty field: None or the empty string.
FieldEmpty(v) == v = PyNone \/ v = PyStr(<<>>)

\* The call of extract_structured_data has returned.
ExReturned == HasReturned(ex_call.outcome)

ExRecord == ex_call.outcome[2]

\* json.loads accepted the cleaned response.
ExDecoded == ExReturned /\ json_loads(ex_call.candidate[2])[1]

\* C1: whatever text the backend returns, the value extract_structured_data
\* returns is a mapping that holds every one of the 18 schema keys.
C1_EverySchemaKeyPresent == ExReturned => FullyKeyed(ExRecord)

C3_UndecodableResponseKeptVerbatim ==
    (ExReturned /\ ~ExDecoded) =>
        /\ IsDict(ExRecord)
        /\ \A k \in SchemaKeys \ {<<"n","o","t","e","s">>} : FieldEmpty(DictGet(ExRecord, k))
        /\ DictGet(ExRecord, <<"n","o","t","e","s">>) = PyStr(ex_backend[2])

\* The payload is the text of a JSON object.
IsJsonObject(p) == json_loads(p)[1] /\ IsDict(json_loads(p)[2])

BothExtracted == ex_call # NotCalled /\ ex_bare_call # NotCalled

\* C4: a JSON object wrapped in fences with a leading json tag is cleaned to
\* the same candidate as the bare object, and extraction returns the same
\* record for both.
C4_FencedJsonSameAsBare ==
    (BothExtracted /\ ex_wrapper = "fenced_json" /\ IsJsonObject(ex_payload)) =>
        /\ ex_call.candidate = ex_bare_call.candidate
        /\ ex_call.candidate[2] = ex_payload
        /\ ex_call.outcome = ex_bare_call.outcome
        /\ ex_call.outcome = Returned(json_loads(ex_payload)[2])

\* C4 witness: both calls made on a fenced, tagged object with fields.
C4_Witness ==
    /\ BothExtracted
    /\ ex_wrapper = "fenced_json"
    /\ IsJsonObject(ex_payload)
    /\ HasKey(ex_call.outcome[2], <<"l","a","n","d","l","o","r","d">>)

\* C5: after a successful parse the record holds no key outside the schema.
C5_NoKeyOutsideSchema ==
    (ExDecoded /\ IsDict(ExRecord)) => Keys(ExRecord) \subseteq SchemaKeys

\* C6: None and the empty string render as the placeholder, and rendering a
\* rendered value again returns it unchanged.
C6_RenderIdempotent ==
    /\ (nv_once # Pending /\ FieldEmpty(nv_value)) => nv_once = Rendered(<<"EMDASH">>)
    /\ nv_twice # Pending => nv_twice = nv_once

Latin1Safe(s) == \A i \in 1..Len(s) : s[i] \notin NonLatin1

\* C7: every text build_summary_pdf hands to the PDF writer holds only
\* characters that latin-1 can encode.
C7_WriterTextsLatin1 == \A i \in 1..Len(pdf_texts) : Latin1Safe(pdf_texts[i])

\* C8: whenever results are shown, questions answered or the summary built,
\* the record in session state was extracted from the raw text in session
\* state.
C8_RecordOfCurrentText == view = "results" => structured_from = <<"text", raw_text>>

Contains(s, p) == str_find(s, p, 1) # 0

BothAsked == qa_standard # Pending /\ qa_persona # Pending

\* C9: for the same question, record and text, the two answer functions send
\* the same user message, which holds the question, the serialized record
\* and the bounded prefix of the text; only the system message differs.
C9_PersonasSendSameData ==
    BothAsked =>
        LET std == qa_standard[2]
            per == qa_persona[2]
        IN  /\ std.model = per.model
            /\ Len(std.messages) = 2 /\ Len(per.messages) = 2
            /\ std.messages[2] = per.messages[2]
            /\ std.messages[2].role = "user"
            /\ Contains(std.messages[2].content, qa_question)
            /\ Contains(std.messages[2].content, json_dumps(qa_record))
            /\ Contains(std.messages[2].content, Prefix(qa_text, QaExcerptLimit))
            /\ Len(qa_text) > QaExcerptLimit => ~Contains(std.messages[2].content, qa_text)
            /\ std.messages[1].role = "system" /\ per.messages[1].role = "system"
            /\ std.messages[1].content # per.messages[1].content

\* C9 witness: both functions called with a non-empty record and a text
\* longer than the excerpt.
C9_Witness ==
    /\ BothAsked
    /\ Len(qa_text) > QaExcerptLimit
    /\ qa_record # PyDict(<<>>)
    /\ qa_question # <<>>

LowerCase == <<"a","b","c","d","e","f","g","h","i","j","k","l","m","n","o","p","q","r","s","t","u","v","w","x","y","z">>

UpperCase == <<"A","B","C","D","E","F","G","H","I","J","K","L","M","N","O","P","Q","R","S","T","U","V","W","X","Y","Z">>

IsLetter(c) == \E i \in 1..26 : LowerCase[i] = c \/ UpperCase[i] = c

LetterIndex(c) == CHOOSE i \in 1..26 : LowerCase[i] = c \/ UpperCase[i] = c

\* A key re-cased for reading: underscores to spaces, each word capitalised.
ReadableKey(k) ==
    LET spaced == [i \in 1..Len(k) |-> IF k[i] = "_" THEN " " ELSE k[i]]
    IN  [i \in 1..Len(k) |->
            IF ~IsLetter(spaced[i]) THEN spaced[i]
            ELSE IF i = 1 \/ ~IsLetter(spaced[i - 1])
                 THEN UpperCase[LetterIndex(spaced[i])]
                 ELSE LowerCase[LetterIndex(spaced[i])]]

NonEmptyMappingRendered == nv_once # Pending /\ IsDict(nv_value) /\ Items(nv_value) # <<>>

C11_EstimateOfCurrentRecord ==
    value_estimate # <<>> => estimate_from = <<"args", structured, raw_text>>

====
